---- MODULE Spec2Model ----
(***************************************************************************)
(* A model of the `replacer` crate: the Rule trait, the four reference     *)
(* rules (StringRule, TypeRule, StructRule, ExprRule), the older StructRule*)
(* kept in lib.rs, and TemplateBuilder / Template::apply.                  *)
(*                                                                         *)
(* Text is a sequence of tokens.  A token is one character, except for the *)
(* literal words the patterns spell out in full, which are kept as one     *)
(* token each: the three macro paths and the visibility qualifier "pub ".  *)
(* No pattern class ([^;], [^{], \s, [({], [)}]) and no single-character   *)
(* pattern element can match inside one of those words, so matching token  *)
(* by token is matching character by character on such text.               *)
(***************************************************************************)
EXTENDS Integers, Sequences, FiniteSets

VARIABLES
    builder,    \* TemplateBuilder.rules, or "moved" once build() consumed it
    added,      \* history: the rules passed to TemplateBuilder::rule, in call order
    template,   \* Template.rules once built, "none" before
    calls,      \* per apply call: its document, fold accumulator and position
    r_pc,       \* single-rule run: "start", "built", "failed", "done"
    r_args,     \* single-rule run: the arguments given to <Kind>Rule::new
    r_new,      \* single-rule run: what <Kind>Rule::new returned
    r_frags,    \* single-rule run: the document, as the pieces it was written from
    r_out       \* single-rule run: what convert returned

vars == <<builder, added, template, calls, r_pc, r_args, r_new, r_frags, r_out>>

(***************************************************************************)
(* Bounds.                                                                 *)
(***************************************************************************)
\* Longest rule list given to a TemplateBuilder.
MaxRules == 3
\* Most pieces a document of the single-rule runs is written from.
MaxFrags == 2

(***************************************************************************)
(* Tokens.                                                                 *)
(***************************************************************************)
TypePrefix == "replacer::rust_type!"
StructPrefix == "replacer::rust_struct!"
ExprPrefix == "replacer::rust_expr!"
PubToken == "pub "

StructToken == "struct "

\* The tokens longer than one character.
WordTokens == {TypePrefix, StructPrefix, ExprPrefix, PubToken, StructToken}

\* Single-character tokens of the class [0-9A-Za-z_].
NameChars == {"m", "n", "x", "v", "P", "R", "0", "1"}

\* Single-character tokens of the class \s.
SpaceChars == {" "}

(***************************************************************************)
(* Text helpers.                                                           *)
(***************************************************************************)
\* Whether text t occurs in s starting at position i.
StartsWithAt(s, i, t) ==
    /\ i >= 1
    /\ i + Len(t) - 1 <= Len(s)
    /\ \A k \in 1..Len(t) : s[i + k - 1] = t[k]

\* The positions at which t occurs in s.
Occurrences(s, t) == {i \in 1..Len(s) : StartsWithAt(s, i, t)}

Contains(s, t) == \E i \in 1..(Len(s) + 1) : StartsWithAt(s, i, t)

\* The first position at or after i holding a token outside (inside) set cls,
\* Len(s) + 1 when there is none.
RECURSIVE SkipWhileNotIn(_, _, _)
SkipWhileNotIn(s, i, cls) ==
    IF i > Len(s) THEN i
    ELSE IF s[i] \in cls THEN i
    ELSE SkipWhileNotIn(s, i + 1, cls)

RECURSIVE SkipWhileIn(_, _, _)
SkipWhileIn(s, i, cls) ==
    IF i > Len(s) THEN i
    ELSE IF s[i] \notin cls THEN i
    ELSE SkipWhileIn(s, i + 1, cls)

(***************************************************************************)
(* Result<T>: Ok(val) or Err(err).                                         *)
(***************************************************************************)
Ok(v) == [ok |-> TRUE, val |-> v, err |-> "none"]
Err(e) == [ok |-> FALSE, val |-> <<>>, err |-> e]

(***************************************************************************)
(* Regex::new on the pattern a macro rule formats its marker name into.    *)
(* The fixed parts of the three patterns are matched by the Match          *)
(* operators below; what is compiled here is the interpolated marker name. *)
(* Of the regex syntax a marker name can bring in, the model covers "."    *)
(* (any character but a line break) and "(" / ")" (a group, which must     *)
(* close); every other character of the bounded marker alphabet is a       *)
(* literal.                                                                *)
(***************************************************************************)
\* The nesting depth after reading marker m from depth d; -1 once a ")" closes
\* nothing.
RECURSIVE ParenDepth(_, _, _)
ParenDepth(m, i, d) ==
    IF d < 0 \/ i > Len(m) THEN d
    ELSE IF m[i] = "(" THEN ParenDepth(m, i + 1, d + 1)
    ELSE IF m[i] = ")" THEN (IF d = 0 THEN 0 - 1 ELSE ParenDepth(m, i + 1, d - 1))
    ELSE ParenDepth(m, i + 1, d)

\* One pattern element per marker character.
MarkerElem(c) == IF c = "." THEN [any |-> TRUE, ch |-> c] ELSE [any |-> FALSE, ch |-> c]

RegexNew(marker) ==
    IF ParenDepth(marker, 1, 0) # 0 THEN Err("PatternError")
    ELSE Ok([k \in 1..Len(marker) |-> MarkerElem(marker[k])])

\* Whether pattern element e matches token tok.
ElemMatches(e, tok) ==
    IF e.any THEN tok \notin WordTokens /\ tok # "\n"
    ELSE tok = e.ch

\* Whether the compiled marker pat matches s at position i (it has one length).
MarkerMatchesAt(pat, s, i) ==
    /\ i + Len(pat) - 1 <= Len(s)
    /\ \A k \in 1..Len(pat) : ElemMatches(pat[k], s[i + k - 1])

\* Whether the compiled marker matches the whole of name.
NameMatches(pat, name) == Len(name) = Len(pat) /\ MarkerMatchesAt(pat, name, 1)

(***************************************************************************)
(* Constructors.  A rule is a record: kind, matches (StringRule's literal),*)
(* regex (the compiled marker of a macro rule), replace_with, and for a    *)
(* caller-defined rule whether its convert fails and with which error.     *)
(***************************************************************************)
MkRule(kind, matches, regex, replace_with) ==
    [kind |-> kind, matches |-> matches, regex |-> regex,
     replace_with |-> replace_with, fails |-> FALSE, error |-> "none"]

\* StringRule::new: matches = format!("$${}$$", matches).
StringRuleNew(matches, replace_with) ==
    Ok(MkRule("String", <<"$", "$">> \o matches \o <<"$", "$">>, <<>>, replace_with))

MacroRuleNew(kind, matches, replace_with) ==
    LET regex == RegexNew(matches)
    IN  IF regex.ok THEN Ok(MkRule(kind, <<>>, regex.val, replace_with))
        ELSE Err(regex.err)

TypeRuleNew(matches, replace_with) == MacroRuleNew("Type", matches, replace_with)
ExprRuleNew(matches, replace_with) == MacroRuleNew("Expr", matches, replace_with)
StructRuleNew(matches, replace_with) == MacroRuleNew("Struct", matches, replace_with)
\* The StructRule of lib.rs.
LibStructRuleNew(matches, replace_with) == MacroRuleNew("LibStruct", matches, replace_with)

\* A caller's own implementation of the Rule trait: its convert returns
\* Result<String>, here either Err(error) or the text with tag appended.
CustomRule(tag, fails, error) ==
    [kind |-> "Custom", matches |-> <<>>, regex |-> <<>>,
     replace_with |-> tag, fails |-> fails, error |-> error]

RuleNew(kind, matches, replace_with) ==
    CASE kind = "String" -> StringRuleNew(matches, replace_with)
      [] kind = "Type" -> TypeRuleNew(matches, replace_with)
      [] kind = "Expr" -> ExprRuleNew(matches, replace_with)
      [] kind = "Struct" -> StructRuleNew(matches, replace_with)
      [] kind = "LibStruct" -> LibStructRuleNew(matches, replace_with)

(***************************************************************************)
(* Matching.  Each Match operator gives, for a match of the rule's pattern *)
(* starting at position i of s, the position just after it, and 0 when the *)
(* pattern does not match there.  Every repetition of the three patterns   *)
(* is a negated class followed by the character it excludes, or \s*        *)
(* followed by a bracket, so a match at i has one possible extent.         *)
(***************************************************************************)
\* Faulty variant: the pattern lacks the ";" that ends the marker name, so the
\* name in the text may go on after the marker: \(M[^;]*;[^;]+;\)
MacroMatchEndOpenName(prefix, pat, s, i) ==
    LET semi == SkipWhileNotIn(s, i + 2 + Len(pat), {";"})
        last == SkipWhileNotIn(s, semi + 1, {";"})
    IN  IF /\ s[i] = prefix
           /\ i + 1 <= Len(s) /\ s[i + 1] = "("
           /\ MarkerMatchesAt(pat, s, i + 2)
           /\ semi <= Len(s)
           /\ last > semi + 1
           /\ last + 1 <= Len(s) /\ s[last + 1] = ")"
        THEN last + 2
        ELSE 0

\* Faulty variant: the payload may be empty: \(M;[^;]*;\)
MacroMatchEndEmptyPayload(prefix, pat, s, i) ==
    LET semi == i + 2 + Len(pat)
        last == SkipWhileNotIn(s, semi + 1, {";"})
    IN  IF /\ s[i] = prefix
           /\ i + 1 <= Len(s) /\ s[i + 1] = "("
           /\ MarkerMatchesAt(pat, s, i + 2)
           /\ semi <= Len(s) /\ s[semi] = ";"
           /\ last >= semi + 1
           /\ last + 1 <= Len(s) /\ s[last + 1] = ")"
        THEN last + 2
        ELSE 0

\* replacer::rust_type!\(M;[^;]+;\)  and  replacer::rust_expr!\(M;[^;]+;\)
MacroMatchEnd(prefix, pat, s, i) ==
    LET semi == i + 2 + Len(pat)                    \* the ";" after the marker
        last == SkipWhileNotIn(s, semi + 1, {";"})  \* the ";" after [^;]+
    IN  IF /\ s[i] = prefix
           /\ i + 1 <= Len(s) /\ s[i + 1] = "("
           /\ MarkerMatchesAt(pat, s, i + 2)
           /\ semi <= Len(s) /\ s[semi] = ";"
           /\ last > semi + 1
           /\ last + 1 <= Len(s) /\ s[last + 1] = ")"
        THEN last + 2
        ELSE 0

\* Faulty variant: the closing bracket has to be the partner of the opening
\* one, as two alternatives \(...\)|\{...\} of the pattern would have it.
StructMatchPaired(pat, s, i) ==
    LET open == SkipWhileIn(s, i + 1, SpaceChars)
        hasPub == open + 1 <= Len(s) /\ s[open + 1] = PubToken
        name == IF hasPub THEN open + 2 ELSE open + 1
        semi == name + Len(pat)
        brace == SkipWhileNotIn(s, semi + 1, {"{"})
        last == SkipWhileNotIn(s, brace + 1, {";"})
    IN  IF /\ s[i] = StructPrefix
           /\ open <= Len(s) /\ s[open] \in {"(", "{"}
           /\ MarkerMatchesAt(pat, s, name)
           /\ semi <= Len(s) /\ s[semi] = ";"
           /\ brace > semi + 1 /\ brace <= Len(s)
           /\ last <= Len(s)
           /\ last - 1 > brace + 1 /\ s[last - 1] = "}"
           /\ last + 1 <= Len(s)
           /\ s[last + 1] = (IF s[open] = "(" THEN ")" ELSE "}")
        THEN <<last + 2, hasPub>>
        ELSE <<0, FALSE>>

\* replacer::rust_struct!\s*[\({](?P<pub>pub )?M;[^{]+\{[^;]+};[\)}]
\* The result is <<end, whether group "pub" took part>>.  With "pub " in the
\* text the alternative without the group would need M to match "pub ...",
\* which no marker shorter than four characters does.
StructMatch(pat, s, i) ==
    LET open == SkipWhileIn(s, i + 1, SpaceChars)     \* the opening bracket
        hasPub == open + 1 <= Len(s) /\ s[open + 1] = PubToken
        name == IF hasPub THEN open + 2 ELSE open + 1
        semi == name + Len(pat)                       \* the ";" after the marker
        brace == SkipWhileNotIn(s, semi + 1, {"{"})   \* the "{" after [^{]+
        last == SkipWhileNotIn(s, brace + 1, {";"})   \* the ";" after [^;]+}
    IN  IF /\ s[i] = StructPrefix
           /\ open <= Len(s) /\ s[open] \in {"(", "{"}
           /\ MarkerMatchesAt(pat, s, name)
           /\ semi <= Len(s) /\ s[semi] = ";"
           /\ brace > semi + 1 /\ brace <= Len(s)
           /\ last <= Len(s)
           /\ last - 1 > brace + 1 /\ s[last - 1] = "}"
           /\ last + 1 <= Len(s) /\ s[last + 1] \in {")", "}"}
        THEN <<last + 2, hasPub>>
        ELSE <<0, FALSE>>

\* lib.rs: replacer::rust_struct!\s*[\({]M;[^;]+;([^;]+);[\)}]
\* The result is <<end, first and last position of group 1>>.
LibStructMatch(pat, s, i) ==
    LET open == SkipWhileIn(s, i + 1, SpaceChars)
        semi == open + 1 + Len(pat)                   \* the ";" after the marker
        mid == SkipWhileNotIn(s, semi + 1, {";"})     \* the ";" after the first [^;]+
        last == SkipWhileNotIn(s, mid + 1, {";"})     \* the ";" after group 1
    IN  IF /\ s[i] = StructPrefix
           /\ open <= Len(s) /\ s[open] \in {"(", "{"}
           /\ MarkerMatchesAt(pat, s, open + 1)
           /\ semi <= Len(s) /\ s[semi] = ";"
           /\ mid > semi + 1 /\ mid <= Len(s)
           /\ last > mid + 1
           /\ last + 1 <= Len(s) /\ s[last + 1] \in {")", "}"}
        THEN <<last + 2, mid + 1, last - 1>>
        ELSE <<0, 0, 0>>

\* The end of the rule's match at i, 0 when there is none.
MatchEnd(rule, s, i) ==
    CASE rule.kind = "Type" -> MacroMatchEnd(TypePrefix, rule.regex, s, i)
      [] rule.kind = "Expr" -> MacroMatchEnd(ExprPrefix, rule.regex, s, i)
      [] rule.kind = "Struct" -> StructMatch(rule.regex, s, i)[1]
      [] rule.kind = "LibStruct" -> LibStructMatch(rule.regex, s, i)[1]

(***************************************************************************)
(* Replacement.  TypeRule and ExprRule hand replace_with to replace_all as *)
(* a &str, which the regex crate expands: "$$" is "$", "$name" and         *)
(* "${name}" are the text of that capture group (empty when there is no    *)
(* such group), any other "$" is itself.  Their patterns have group 0, the *)
(* whole match, only.  The struct rules hand replace_all a closure, whose  *)
(* result is inserted as it is.                                            *)
(***************************************************************************)
\* The text of the capture group called name, for the match text whole.
CaptureText(name, whole) ==
    IF Len(name) > 0 /\ \A k \in 1..Len(name) : name[k] = "0" THEN whole ELSE <<>>

RECURSIVE Expand(_, _, _)
Expand(rep, i, whole) ==
    IF i > Len(rep) THEN <<>>
    ELSE IF rep[i] # "$" THEN <<rep[i]>> \o Expand(rep, i + 1, whole)
    ELSE IF i + 1 <= Len(rep) /\ rep[i + 1] = "$"
        THEN <<"$">> \o Expand(rep, i + 2, whole)
    ELSE IF i + 1 <= Len(rep) /\ rep[i + 1] = "{"
        THEN LET close == SkipWhileNotIn(rep, i + 2, {"}"})
             IN  IF close > Len(rep)
                 THEN <<"$">> \o Expand(rep, i + 1, whole)
                 ELSE CaptureText(SubSeq(rep, i + 2, close - 1), whole)
                          \o Expand(rep, close + 1, whole)
    ELSE LET stop == SkipWhileIn(rep, i + 1, NameChars)
         IN  IF stop = i + 1
             THEN <<"$">> \o Expand(rep, i + 1, whole)
             ELSE CaptureText(SubSeq(rep, i + 1, stop - 1), whole)
                      \o Expand(rep, stop, whole)

\* Faulty variant: the StructRule's closure leaves out the captured "pub ".
ReplacementDropsPub(rule, s, i, e) ==
    CASE rule.kind \in {"Type", "Expr"} ->
            Expand(rule.replace_with, 1, SubSeq(s, i, e - 1))
      [] rule.kind = "Struct" -> <<StructToken>> \o rule.replace_with
      [] rule.kind = "LibStruct" ->
            LET m == LibStructMatch(rule.regex, s, i)
            IN  <<StructToken>> \o rule.replace_with \o <<" ", "{">>
                    \o SubSeq(s, m[2], m[3]) \o <<" ", "}">>

\* Faulty variant: the StructRule's closure copies the captured field list, as
\* lib.rs's does, after a replacement text that already holds one.
ReplacementCopiesFields(rule, s, i, e) ==
    CASE rule.kind \in {"Type", "Expr"} ->
            Expand(rule.replace_with, 1, SubSeq(s, i, e - 1))
      [] rule.kind = "Struct" ->
            LET semi == SkipWhileNotIn(s, i, {";"})
                brace == SkipWhileNotIn(s, semi, {"{"})
            IN  (IF StructMatch(rule.regex, s, i)[2] THEN <<PubToken>> ELSE <<>>)
                    \o <<StructToken>> \o rule.replace_with
                    \o <<" ", "{">> \o SubSeq(s, brace + 1, e - 4) \o <<" ", "}">>
      [] rule.kind = "LibStruct" ->
            LET m == LibStructMatch(rule.regex, s, i)
            IN  <<StructToken>> \o rule.replace_with \o <<" ", "{">>
                    \o SubSeq(s, m[2], m[3]) \o <<" ", "}">>

\* What replace_all puts in place of the rule's match s[i .. e-1].
Replacement(rule, s, i, e) ==
    CASE rule.kind \in {"Type", "Expr"} ->
            Expand(rule.replace_with, 1, SubSeq(s, i, e - 1))
      [] rule.kind = "Struct" ->
            \* format!("{}struct {}", pub, replace_with)
            (IF StructMatch(rule.regex, s, i)[2] THEN <<PubToken>> ELSE <<>>)
                \o <<StructToken>> \o rule.replace_with
      [] rule.kind = "LibStruct" ->
            \* format!("struct {} {{{} }}", replace_with, &caps[1])
            LET m == LibStructMatch(rule.regex, s, i)
            IN  <<StructToken>> \o rule.replace_with \o <<" ", "{">>
                    \o SubSeq(s, m[2], m[3]) \o <<" ", "}">>

\* Faulty variant: Regex::replace, which replaces the leftmost match only.
RECURSIVE RegexReplaceFirst(_, _, _)
RegexReplaceFirst(rule, s, i) ==
    IF i > Len(s) THEN <<>>
    ELSE LET e == MatchEnd(rule, s, i)
         IN  IF e = 0 THEN <<s[i]>> \o RegexReplaceFirst(rule, s, i + 1)
             ELSE Replacement(rule, s, i, e) \o SubSeq(s, e, Len(s))

\* Regex::replace_all: the leftmost match from i on is replaced and the scan
\* goes on after it; the text between matches is copied.
RECURSIVE RegexReplaceAll(_, _, _)
RegexReplaceAll(rule, s, i) ==
    IF i > Len(s) THEN <<>>
    ELSE LET e == MatchEnd(rule, s, i)
         IN  IF e = 0 THEN <<s[i]>> \o RegexReplaceAll(rule, s, i + 1)
             ELSE Replacement(rule, s, i, e) \o RegexReplaceAll(rule, s, e)

\* Faulty variant: str::replacen(from, to, 1), the first occurrence only.
RECURSIVE StrReplaceOnce(_, _, _, _)
StrReplaceOnce(s, i, from, to) ==
    IF i > Len(s) THEN <<>>
    ELSE IF StartsWithAt(s, i, from) THEN to \o SubSeq(s, i + Len(from), Len(s))
    ELSE <<s[i]>> \o StrReplaceOnce(s, i + 1, from, to)

\* str::replace: every non-overlapping occurrence of from, left to right.
RECURSIVE StrReplace(_, _, _, _)
StrReplace(s, i, from, to) ==
    IF i > Len(s) THEN <<>>
    ELSE IF StartsWithAt(s, i, from) THEN to \o StrReplace(s, i + Len(from), from, to)
    ELSE <<s[i]>> \o StrReplace(s, i + 1, from, to)

\* Faulty variant: a convert that reports a document without a placeholder of
\* the rule as an error.
TypeRuleConvertNoMatch(rule, code) ==
    IF RegexReplaceAll(rule, code, 1) = code THEN Err("NoMatch")
    ELSE Ok(RegexReplaceAll(rule, code, 1))

\* Rule::convert of each implementation.
StringRuleConvert(rule, code) == Ok(StrReplace(code, 1, rule.matches, rule.replace_with))
TypeRuleConvert(rule, code) == Ok(RegexReplaceAll(rule, code, 1))
ExprRuleConvert(rule, code) == Ok(RegexReplaceAll(rule, code, 1))
StructRuleConvert(rule, code) == Ok(RegexReplaceAll(rule, code, 1))
LibStructRuleConvert(rule, code) == Ok(RegexReplaceAll(rule, code, 1))
CustomRuleConvert(rule, code) ==
    IF rule.fails THEN Err(rule.error) ELSE Ok(code \o rule.replace_with)

Convert(rule, code) ==
    CASE rule.kind = "String" -> StringRuleConvert(rule, code)
      [] rule.kind = "Type" -> TypeRuleConvert(rule, code)
      [] rule.kind = "Expr" -> ExprRuleConvert(rule, code)
      [] rule.kind = "Struct" -> StructRuleConvert(rule, code)
      [] rule.kind = "LibStruct" -> LibStructRuleConvert(rule, code)
      [] rule.kind = "Custom" -> CustomRuleConvert(rule, code)

(***************************************************************************)
(* TemplateBuilder and Template.                                           *)
(***************************************************************************)
\* The apply calls that may be in progress on the one Template.
Calls == {1, 2}

\* The rules a caller may add: two literal rules that do not commute (the
\* first produces the second's marker), a type rule, and two caller-defined
\* rules whose convert fails, each with its own error.
RuleA == StringRuleNew(<<"m">>, <<"$", "$", "n", "$", "$">>).val
RuleB == StringRuleNew(<<"n">>, <<"v">>).val
RuleT == TypeRuleNew(<<"m">>, <<"R">>).val
RuleF1 == CustomRule(<<>>, TRUE, "e1")
RuleF2 == CustomRule(<<>>, TRUE, "e2")
TemplateRules == {RuleA, RuleB, RuleT, RuleF1, RuleF2}

\* The documents apply is called on.
TemplateDocs ==
    { <<"$", "$", "m", "$", "$">>,
      <<TypePrefix, "(", "m", ";", "x", ";", ")", "$", "$", "n", "$", "$">> }

IdleCall ==
    [pc |-> "idle", code |-> <<>>, acc |-> Ok(<<>>), idx |-> 0,
     invoked |-> <<>>, raced |-> FALSE, ret |-> Ok(<<>>)]

\* TemplateBuilder::new
Init ==
    /\ builder = [moved |-> FALSE, rules |-> <<>>]
    /\ added = <<>>
    /\ template = [built |-> FALSE, rules |-> <<>>]
    /\ calls = [c \in Calls |-> IdleCall]
    /\ r_pc = "off"
    /\ r_args = [kind |-> "none", matches |-> <<>>, replace_with |-> <<>>]
    /\ r_new = Err("none")
    /\ r_frags = <<>>
    /\ r_out = Err("none")

RuleRunUnchanged == UNCHANGED <<r_pc, r_args, r_new, r_frags, r_out>>
TemplateUnchanged == UNCHANGED <<builder, added, template, calls>>

\* Faulty variant: the rule is put in front of the list.
BuilderRuleFront(rule) ==
    /\ ~builder.moved
    /\ Len(builder.rules) < MaxRules
    /\ builder' = [builder EXCEPT !.rules = <<rule>> \o @]
    /\ added' = Append(added, rule)
    /\ UNCHANGED <<template, calls, r_pc, r_args, r_new, r_frags, r_out>>

\* TemplateBuilder::rule: self.rules.push(Box::new(rule)).
BuilderRule(rule) ==
    /\ ~builder.moved
    /\ Len(builder.rules) < MaxRules
    /\ builder' = [builder EXCEPT !.rules = Append(@, rule)]
    /\ added' = Append(added, rule)
    /\ UNCHANGED <<template, calls>>
    /\ RuleRunUnchanged

\* TemplateBuilder::build: Template { rules: self.rules }; self is consumed.
BuilderBuild ==
    /\ ~builder.moved
    /\ template' = [built |-> TRUE, rules |-> builder.rules]
    /\ builder' = [moved |-> TRUE, rules |-> <<>>]
    /\ UNCHANGED <<added, calls>>
    /\ RuleRunUnchanged

\* Template::apply, entered: the fold starts from Ok(code.to_string()).
ApplyCall(c, code) ==
    /\ template.built
    /\ calls[c].pc = "idle"
    /\ calls' = [calls EXCEPT ![c] =
                    [pc |-> "fold", code |-> code, acc |-> Ok(code), idx |-> 1,
                     invoked |-> <<>>, raced |-> FALSE, ret |-> Ok(<<>>)]]
    /\ UNCHANGED <<builder, added, template>>
    /\ RuleRunUnchanged

\* Whether another call is part-way through its fold.
OtherMidFold(c) ==
    \E d \in Calls \ {c} :
        calls[d].pc = "fold" /\ calls[d].idx > 1 /\ calls[d].idx <= Len(template.rules)

\* Faulty variant: the Err arm calls convert too, on the call's document.
ApplyStepNoShortCircuit(c) ==
    /\ calls[c].pc = "fold"
    /\ calls[c].idx <= Len(template.rules)
    /\ LET call == calls[c]
           rule == template.rules[call.idx]
       IN  calls' = [calls EXCEPT ![c] =
                [call EXCEPT
                    !.acc = Convert(rule, IF call.acc.ok THEN call.acc.val ELSE call.code),
                    !.invoked = Append(@, call.idx),
                    !.raced = @ \/ OtherMidFold(c),
                    !.idx = @ + 1]]
    /\ UNCHANGED <<builder, added, template, r_pc, r_args, r_new, r_frags, r_out>>

\* Faulty variant: the running result is kept in the Template, one for all
\* calls, instead of in the fold of each call.
ApplyStepSharedAcc(c) ==
    /\ calls[c].pc = "fold"
    /\ calls[c].idx <= Len(template.rules)
    /\ LET call == calls[c]
           rule == template.rules[call.idx]
           acc == IF call.acc.ok THEN Convert(rule, call.acc.val) ELSE call.acc
       IN  calls' = [d \in Calls |->
                IF d = c
                THEN [call EXCEPT
                        !.acc = acc,
                        !.invoked = IF call.acc.ok THEN Append(@, call.idx) ELSE @,
                        !.raced = @ \/ OtherMidFold(c),
                        !.idx = @ + 1]
                ELSE IF calls[d].pc = "fold" THEN [calls[d] EXCEPT !.acc = acc]
                ELSE calls[d]]
    /\ UNCHANGED <<builder, added, template, r_pc, r_args, r_new, r_frags, r_out>>

\* The fold's closure on the next rule:
\* Ok(code) => rule.convert(&code), Err(err) => Err(err).
\* invoked records the rules whose convert was called, raced whether a step
\* of this call was taken while another call was part-way through its fold.
ApplyStep(c) ==
    /\ calls[c].pc = "fold"
    /\ calls[c].idx <= Len(template.rules)
    /\ LET call == calls[c]
           rule == template.rules[call.idx]
       IN  calls' = [calls EXCEPT ![c] =
                [call EXCEPT
                    !.acc = IF call.acc.ok THEN Convert(rule, call.acc.val) ELSE call.acc,
                    !.invoked = IF call.acc.ok THEN Append(@, call.idx) ELSE @,
                    !.raced = @ \/ OtherMidFold(c),
                    !.idx = @ + 1]]
    /\ UNCHANGED <<builder, added, template>>
    /\ RuleRunUnchanged

\* Template::apply returns the fold's result.
ApplyReturn(c) ==
    /\ calls[c].pc = "fold"
    /\ calls[c].idx > Len(template.rules)
    /\ calls' = [calls EXCEPT ![c] = [@ EXCEPT !.pc = "returned", !.ret = calls[c].acc]]
    /\ UNCHANGED <<builder, added, template>>
    /\ RuleRunUnchanged

Next ==
    \/ \E rule \in TemplateRules : BuilderRule(rule)
    \/ BuilderBuild
    \/ \E c \in Calls, code \in TemplateDocs : ApplyCall(c, code)
    \/ \E c \in Calls : ApplyStep(c)
    \/ \E c \in Calls : ApplyReturn(c)

Spec == Init /\ [][Next]_vars

(***************************************************************************)
(* Single-rule runs: <Kind>Rule::new on a marker name and a replacement,   *)
(* then convert on one document.                                           *)
(***************************************************************************)
RuleKinds == {"String", "Type", "Expr", "Struct", "LibStruct"}

\* Marker names: an identifier, an identifier that has it as a prefix, and
\* names that bring regex syntax into the pattern.
MarkerNames == { <<"m">>, <<"m", "n">>, <<".">>, <<"(">> }

\* Replacement texts.
Replacements == { <<"R">>, <<"$", "0">>, <<"$", "$", "m", "$", "$">> }

\* The pieces documents are written from.  kind and name say what the piece
\* is to a reader of the template; pub and fields describe a struct piece.
Piece(kind, name, text) ==
    [kind |-> kind, name |-> name, text |-> text, pub |-> FALSE, fields |-> <<>>]

\* prefix(name;payload;) ; fields holds the default payload.
MacroPieceWith(kind, prefix, name, payload) ==
    [kind |-> kind, name |-> name, pub |-> FALSE, fields |-> payload,
     text |-> <<prefix, "(">> \o name \o <<";">> \o payload \o <<";", ")">>]

MacroPiece(kind, prefix, name) == MacroPieceWith(kind, prefix, name, <<"x">>)

\* replacer::rust_struct! {name; P{ x};}  and  replacer::rust_struct!(pub name; P{ x};)
StructPiece(name, pub) ==
    [kind |-> "struct", name |-> name, pub |-> pub, fields |-> <<" ", "x">>,
     text |-> (IF pub THEN <<StructPrefix, "(", PubToken>> ELSE <<StructPrefix, " ", "{">>)
                \o name \o <<";", "P", "{", " ", "x", "}", ";">>
                \o (IF pub THEN <<")">> ELSE <<"}">>)]

\* A struct placeholder opened with open and closed with close, as the one in
\* the example of StructRule's documentation:
\* replacer::rust_struct!(name; P{ x};}
StructPieceIn(name, open, close) ==
    [kind |-> "struct", name |-> name, pub |-> FALSE, fields |-> <<" ", "x">>,
     text |-> <<StructPrefix, open>> \o name
                \o <<";", "P", "{", " ", "x", "}", ";", close>>]

\* lib.rs's form: replacer::rust_struct!(name; P; x;)
LibStructPiece(name) ==
    [kind |-> "libstruct", name |-> name, pub |-> FALSE, fields |-> <<" ", "x">>,
     text |-> <<StructPrefix, "(">> \o name \o <<";", "P", ";", " ", "x", ";", ")">>]

Pieces ==
    << Piece("text", <<>>, <<"x">>),
       Piece("literal", <<"m">>, <<"$", "$", "m", "$", "$">>),
       Piece("text", <<>>, <<"$", "$", "m", "$", "$", "m", "$", "$">>),
       MacroPiece("type", TypePrefix, <<"m">>),
       MacroPiece("type", TypePrefix, <<"m", "n">>),
       MacroPiece("type", TypePrefix, <<"n", "m">>),
       MacroPiece("expr", ExprPrefix, <<"m">>),
       StructPiece(<<"m">>, FALSE),
       StructPiece(<<"m">>, TRUE),
       StructPiece(<<"m", "n">>, FALSE),
       LibStructPiece(<<"m">>),
       StructPieceIn(<<"m">>, "(", "}"),
       StructPieceIn(<<"m">>, "{", ")"),
       \* replacer::rust_expr!(m;";)";) : the payload is the string literal ";)"
       MacroPieceWith("expr", ExprPrefix, <<"m">>, <<"\"", ";", ")", "\"">>),
       \* replacer::rust_type!(m;x;x;) , as a payload [u8; 3] has it
       MacroPieceWith("type", TypePrefix, <<"m">>, <<"x", ";", "x">>),
       \* replacer::rust_type!(m;;)
       MacroPieceWith("type", TypePrefix, <<"m">>, <<>>) >>

\* The documents of at most MaxFrags pieces, as sequences of piece numbers.
PieceSeqs == UNION {[1..n -> 1..Len(Pieces)] : n \in 0..MaxFrags}

\* The text of a document.
RECURSIVE DocText(_, _)
DocText(frags, n) ==
    IF n = 0 THEN <<>> ELSE DocText(frags, n - 1) \o Pieces[frags[n]].text

Doc == DocText(r_frags, Len(r_frags))

RuleInit ==
    /\ builder = [moved |-> FALSE, rules |-> <<>>]
    /\ added = <<>>
    /\ template = [built |-> FALSE, rules |-> <<>>]
    /\ calls = [c \in Calls |-> IdleCall]
    /\ r_pc = "start"
    /\ r_args = [kind |-> "none", matches |-> <<>>, replace_with |-> <<>>]
    /\ r_new = Err("none")
    /\ r_frags = <<>>
    /\ r_out = Err("none")

\* <Kind>Rule::new(matches, replace_with)
RunNew(kind, matches, replace_with) ==
    /\ r_pc = "start"
    /\ r_args' = [kind |-> kind, matches |-> matches, replace_with |-> replace_with]
    /\ r_new' = RuleNew(kind, matches, replace_with)
    /\ r_pc' = IF r_new'.ok THEN "built" ELSE "failed"
    /\ UNCHANGED <<r_frags, r_out>>
    /\ TemplateUnchanged

\* rule.convert(document)
RunConvert(frags) ==
    /\ r_pc = "built"
    /\ r_frags' = frags
    /\ r_out' = Convert(r_new.val, DocText(frags, Len(frags)))
    /\ r_pc' = "done"
    /\ UNCHANGED <<r_args, r_new>>
    /\ TemplateUnchanged

\* (The guards are repeated in front of the quantifiers so that the inputs
\* are enumerated only where the step can be taken.)
RuleNext ==
    \/ /\ r_pc = "start"
       /\ \E kind \in RuleKinds, matches \in MarkerNames, replace_with \in Replacements :
                RunNew(kind, matches, replace_with)
    \/ /\ r_pc = "built"
       /\ \E frags \in PieceSeqs : RunConvert(frags)

RuleSpec == RuleInit /\ [][RuleNext]_vars

\* A program of the library does the one or the other: it builds a Template
\* and applies it, or it constructs one rule and calls its convert.
ProgramInit == Init \/ RuleInit
ProgramNext ==
    \/ r_pc = "off" /\ Next
    \/ r_pc # "off" /\ RuleNext
ProgramSpec == ProgramInit /\ [][ProgramNext]_vars

(***************************************************************************)
(* What the claims about Template compare the fold with.                   *)
(***************************************************************************)
\* rs[n].convert(... rs[2].convert(rs[1].convert(d)) ...), the text only.
RECURSIVE Compose(_, _, _)
Compose(rs, n, d) ==
    IF n = 0 THEN d ELSE Convert(rs[n], Compose(rs, n - 1, d)).val

\* What rule k of rs returns when the rules before it have run on d.
ResultOf(rs, k, d) == Convert(rs[k], Compose(rs, k - 1, d))

\* The first rule of rs whose convert fails on d: a set with at most one index.
FirstFailing(rs, d) ==
    {k \in 1..Len(rs) : ~ResultOf(rs, k, d).ok /\ \A j \in 1..(k - 1) : ResultOf(rs, j, d).ok}

\* apply run on its own: the sequential fold.
RECURSIVE ApplyAlone(_, _, _)
ApplyAlone(rs, n, d) ==
    IF n = 0 THEN Ok(d)
    ELSE LET prev == ApplyAlone(rs, n - 1, d)
         IN  IF prev.ok THEN Convert(rs[n], prev.val) ELSE prev

UpTo(n) == [k \in 1..n |-> k]

\* C1: fail-fast propagation.  When rule i is the first rule whose convert
\* fails on a call's document, convert is never called on a rule after i, the
\* call returns exactly the error rule i produced, and a running result that
\* is an error stays that error.
C1_State ==
    \A c \in Calls : calls[c].pc # "idle" =>
        \A i \in FirstFailing(template.rules, calls[c].code) :
            /\ \A k \in 1..Len(calls[c].invoked) : calls[c].invoked[k] <= i
            /\ calls[c].pc = "returned" =>
                /\ calls[c].ret = ResultOf(template.rules, i, calls[c].code)
                /\ ~calls[c].ret.ok
                /\ calls[c].invoked = UpTo(i)

C1_Step == \A c \in Calls : ~calls[c].acc.ok => calls'[c].acc = calls[c].acc

C1_FailFast == [](C1_State) /\ [][C1_Step]_vars

\* C1 witness: a call on <<RuleA, RuleF1, RuleF2>> has returned rule 2's error
\* and rule 3 was not invoked.
C1_Witness ==
    /\ template.rules = <<RuleA, RuleF1, RuleF2>>
    /\ calls[1].pc = "returned"
    /\ calls[1].ret = Err("e1")
    /\ calls[1].invoked = <<1, 2>>

\* C2: when every rule succeeds, apply returns the rules composed in the
\* order of the rule() calls, each invoked once, with nothing reordered or
\* dropped; with no rules it returns the document.
C2_InsertionOrder ==
    \A c \in Calls :
        (/\ calls[c].pc = "returned"
         /\ \A k \in 1..Len(added) : ResultOf(added, k, calls[c].code).ok)
        => /\ calls[c].ret = Ok(Compose(added, Len(added), calls[c].code))
           /\ calls[c].invoked = UpTo(Len(added))
           /\ Len(template.rules) = Len(added)

\* C2 witness: RuleA added twice and then RuleB, all three run in that order
\* (RuleB before RuleA would leave "$$n$$").
C2_Witness ==
    /\ added = <<RuleA, RuleA, RuleB>>
    /\ calls[1].pc = "returned"
    /\ calls[1].code = <<"$", "$", "m", "$", "$">>
    /\ calls[1].ret = Ok(<<"v">>)
    /\ calls[1].invoked = <<1, 2, 3>>

\* C2 witness for the empty template, kept apart: the document comes back.
C2_WitnessEmpty ==
    /\ added = <<>>
    /\ calls[1].pc = "returned"
    /\ calls[1].ret = Ok(calls[1].code)

\* C10: under every interleaving of the steps of the apply calls, a call
\* returns what it returns when run alone, and the Template's rules stay the
\* rules it was built from.
C10_ConcurrentApply ==
    /\ \A c \in Calls : calls[c].pc = "returned" =>
            calls[c].ret = ApplyAlone(added, Len(added), calls[c].code)
    /\ template.built => template.rules = added

\* C10 witness: two calls on different documents, each stepped while the other
\* was part-way through, have both returned.
C10_Witness ==
    /\ calls[1].pc = "returned" /\ calls[2].pc = "returned"
    /\ calls[1].raced /\ calls[2].raced
    /\ calls[1].code # calls[2].code
    /\ Len(template.rules) = 3
    /\ calls[1].ret.ok /\ calls[2].ret.ok
    /\ calls[1].ret # calls[2].ret

(***************************************************************************)
(* What the claims about single rules are stated with.                     *)
(***************************************************************************)
RECURSIVE Flatten(_, _)
Flatten(ss, n) == IF n = 0 THEN <<>> ELSE Flatten(ss, n - 1) \o ss[n]

\* A marker name of identifier characters only.
IsIdentifier(name) == Len(name) > 0 /\ \A k \in 1..Len(name) : name[k] \in NameChars

\* The name of the kind of piece a rule kind is for.
PieceKindOf(kind) ==
    CASE kind = "String" -> "literal"
      [] kind = "Type" -> "type"
      [] kind = "Expr" -> "expr"
      [] kind = "Struct" -> "struct"
      [] kind = "LibStruct" -> "libstruct"

\* Whether piece number f is a placeholder of the run's rule: of its kind, with
\* a name the compiled marker matches (for an identifier marker, that name).
OwnPiece(f) ==
    /\ Pieces[f].kind = PieceKindOf(r_args.kind)
    /\ NameMatches(r_new.val.regex, Pieces[f].name)

\* Whether the document's struct placeholders are all written in the form of
\* rule/struct_rule.rs's macro, `name; P{ fields};`, when the run's rule is
\* that file's StructRule.  (A placeholder in lib.rs's form, `name; P; fields;`,
\* has no "{" of its own, and [^{]+ then runs on into the text that follows.)
InOwnForm ==
    r_args.kind = "Struct" => \A k \in 1..Len(r_frags) : Pieces[r_frags[k]].kind # "libstruct"

\* The document with segs[k] in place of every piece k that is the rule's own.
Woven(segs) ==
    Flatten([k \in 1..Len(r_frags) |->
                IF OwnPiece(r_frags[k]) THEN segs[k] ELSE Pieces[r_frags[k]].text],
            Len(r_frags))

\* Whether the document's type and expression placeholders all have a default
\* payload of at least one character and without the separator ";".
PlainPayload(f) ==
    Pieces[f].kind \in {"type", "expr"} =>
        Pieces[f].fields # <<>> /\ ~Contains(Pieces[f].fields, <<";">>)

PlainPayloads == \A k \in 1..Len(r_frags) : PlainPayload(r_frags[k])

MacroKinds == {"Type", "Expr", "Struct", "LibStruct"}
ConvertDone(kinds) == r_pc = "done" /\ r_args.kind \in kinds

(***************************************************************************)
(* C3: StringRule on a document with k occurrences of $$m$$.               *)
(***************************************************************************)
Wrapped == <<"$", "$">> \o r_args.matches \o <<"$", "$">>

\* The occurrences str::replace replaces: an occurrence is taken unless it
\* overlaps an earlier taken one.  There is one such set.
Taken(s, tok) ==
    LET occ == Occurrences(s, tok)
    IN  CHOOSE P \in SUBSET occ :
            \A o \in occ : (o \in P) <=> ~\E p \in P : p < o /\ o < p + Len(tok)

\* Where position i of the document lies in the result, v standing in for each
\* taken occurrence before it.
Moved(P, i, tok, v) ==
    LET before == Cardinality({p \in P : p < i})
    IN  i + before * Len(v) - before * Len(tok)

\* C3 as stated: the result holds no $$m$$, and v stands k times where the k
\* occurrences were, the rest of the text kept (so the length changes by k
\* times the difference).
C3_Original ==
    ConvertDone({"String"}) =>
        LET k == Cardinality(Occurrences(Doc, Wrapped))
        IN  /\ r_out.ok
            /\ Occurrences(r_out.val, Wrapped) = {}
            /\ Len(r_out.val) + k * Len(Wrapped) = Len(Doc) + k * Len(r_args.replace_with)

\* C3 amended: the occurrences of $$m$$ taken left to right without overlap
\* are each replaced by v, at the place of the occurrence, and all other text
\* is kept; and the result holds no $$m$$ when neither v nor the text outside
\* the replaced occurrences has a "$".
C3_Amended ==
    ConvertDone({"String"}) =>
        LET v == r_args.replace_with
            P == Taken(Doc, Wrapped)
            covered(i) == \E p \in P : p <= i /\ i < p + Len(Wrapped)
            out == r_out.val
        IN  /\ r_out.ok
            /\ Len(out) + Cardinality(P) * Len(Wrapped) = Len(Doc) + Cardinality(P) * Len(v)
            /\ \A p \in P : StartsWithAt(out, Moved(P, p, Wrapped, v), v)
            /\ \A i \in 1..Len(Doc) : ~covered(i) => out[Moved(P, i, Wrapped, v)] = Doc[i]
            /\ ((\A j \in 1..Len(v) : v[j] # "$") /\
                (\A i \in 1..Len(Doc) : ~covered(i) => Doc[i] # "$"))
                    => Occurrences(out, Wrapped) = {}

\* C3 witness: "$$m$$m$$" holds two occurrences that overlap and is followed by
\* a third; the first and the third are replaced.
C3_Witness ==
    /\ ConvertDone({"String"})
    /\ r_args.matches = <<"m">>
    /\ r_args.replace_with = <<"R">>
    /\ r_frags = <<3, 2>>
    /\ Cardinality(Occurrences(Doc, Wrapped)) = 3
    /\ r_out = Ok(<<"R", "m", "$", "$", "R">>)

(***************************************************************************)
(* C4: a document without the rule's marker.                               *)
(***************************************************************************)
\* Whether the document holds the rule's marker: the wrapped name for a
\* StringRule, the marker name for a macro rule.
HoldsMarker ==
    IF r_args.kind = "String" THEN Contains(Doc, Wrapped) ELSE Contains(Doc, r_args.matches)

\* C4 as stated: every reference rule returns a document that does not hold
\* its marker unchanged.
C4_Original ==
    (ConvertDone(RuleKinds) /\ ~HoldsMarker) => r_out = Ok(Doc)

(***************************************************************************)
(* C5: what a StructRule puts in place of a struct placeholder.            *)
(***************************************************************************)
Visibility(f) == IF Pieces[f].pub THEN <<PubToken>> ELSE <<>>

\* `struct R { F }` with the field list F of piece f.
StructWithFields(f) ==
    <<StructToken>> \o r_args.replace_with \o <<" ", "{">> \o Pieces[f].fields \o <<" ", "}">>

C5_WitnessLib ==
    /\ ConvertDone({"LibStruct"})
    /\ r_args.matches = <<"m">>
    /\ r_args.replace_with = <<"R">>
    /\ r_frags = <<11>>
    /\ r_out = Ok(<<StructToken, "R", " ", "{", " ", "x", " ", "}">>)

(***************************************************************************)
(* C6: the visibility qualifier of a struct placeholder.                   *)
(***************************************************************************)
\* The positions of token tok in s, and the j-th of a set of positions.
PositionsOf(s, tok) == {i \in 1..Len(s) : s[i] = tok}
Nth(S, j) == CHOOSE p \in S : Cardinality({q \in S : q < p}) = j - 1

C7_AllOccurrences ==
    (ConvertDone({"Type", "Expr"}) /\ PlainPayloads) =>
        r_out = Ok(Woven([k \in 1..Len(r_frags) |->
                    Expand(r_args.replace_with, 1, Pieces[r_frags[k]].text)]))

\* C7 witness: two type placeholders for m, both replaced.
C7_Witness ==
    /\ ConvertDone({"Type"})
    /\ r_args.matches = <<"m">>
    /\ r_args.replace_with = <<"R">>
    /\ r_frags = <<4, 4>>
    /\ r_out = Ok(<<"R", "R">>)

(***************************************************************************)
(* C8: construction with a marker name that holds regex syntax.            *)
(***************************************************************************)
\* The characters regex syntax gives a meaning to.
RegexMeta == {"\\", ".", "+", "*", "?", "(", ")", "|", "[", "]", "{", "}", "^", "$", "#", "&", "-", "~"}

HasMeta(name) == \E k \in 1..Len(name) : name[k] \in RegexMeta

\* C8 as stated: TypeRule::new, StructRule::new and ExprRule::new return a
\* PatternError for every marker name with a regex metacharacter, and a rule
\* they do return matches the literal marker name only.
C8_Original ==
    (r_pc # "start" /\ r_args.kind \in {"Type", "Struct", "Expr"}) =>
        /\ HasMeta(r_args.matches) => r_new = Err("PatternError")
        /\ r_new.ok => \A k \in 1..Len(r_new.val.regex) : ~r_new.val.regex[k].any

(***************************************************************************)
(* C9: names that only contain the marker, and other kinds of placeholder. *)
(***************************************************************************)
\* Whether piece number f is a placeholder of the rule's kind named exactly as
\* the marker.
ExactOwn(f) ==
    Pieces[f].kind = PieceKindOf(r_args.kind) /\ Pieces[f].name = r_args.matches

\* C9: for an identifier marker, every piece other than a placeholder of the
\* rule's kind named exactly as the marker is in the result as it was in the
\* document, whatever the rule made of its own placeholders.
C9_ExactMarker ==
    (ConvertDone(MacroKinds) /\ IsIdentifier(r_args.matches) /\ InOwnForm) =>
        r_out = Ok(Flatten([k \in 1..Len(r_frags) |->
                        IF ExactOwn(r_frags[k])
                        THEN Convert(r_new.val, Pieces[r_frags[k]].text).val
                        ELSE Pieces[r_frags[k]].text],
                    Len(r_frags)))

\* C9 witness: the TypeRule for m leaves the type placeholder for mn as it is
\* and replaces the one for m.
C9_Witness ==
    /\ ConvertDone({"Type"})
    /\ r_args.matches = <<"m">>
    /\ r_args.replace_with = <<"R">>
    /\ r_frags = <<5, 4>>
    /\ r_out = Ok(Pieces[5].text \o <<"R">>)

\* C9 witness for another kind with the same name: the TypeRule for m leaves
\* the expression placeholder for m as it is.
C9_WitnessKind ==
    /\ ConvertDone({"Type"})
    /\ r_args.matches = <<"m">>
    /\ r_frags = <<7, 8>>
    /\ r_out = Ok(Doc)


(***************************************************************************)
(* C11: the brackets around a struct placeholder.                          *)
(***************************************************************************)
\* The bracket that opens piece f and the one that closes it.
OpenOf(f) == Pieces[f].text[SkipWhileIn(Pieces[f].text, 2, SpaceChars)]
CloseOf(f) == Pieces[f].text[Len(Pieces[f].text)]

Paired(f) ==
    \/ OpenOf(f) = "(" /\ CloseOf(f) = ")"
    \/ OpenOf(f) = "{" /\ CloseOf(f) = "}"

\* What the StructRule makes of its placeholder f.
Emitted(f) == Visibility(f) \o <<StructToken>> \o r_args.replace_with

\* C11 as stated: the StructRule replaces its placeholders in (...) and in
\* {...}, and a placeholder opened with one kind of bracket and closed with
\* the other is in the result as it was in the document.  Stated for
\* identifier markers, so that it does not rest on what C8 is about.
C11_Original ==
    (ConvertDone({"Struct"}) /\ IsIdentifier(r_args.matches) /\ InOwnForm) =>
        r_out = Ok(Flatten([k \in 1..Len(r_frags) |->
                        IF OwnPiece(r_frags[k]) /\ Paired(r_frags[k])
                        THEN Emitted(r_frags[k])
                        ELSE Pieces[r_frags[k]].text],
                    Len(r_frags)))

\* C11 amended: the StructRule replaces a struct placeholder for its marker
\* whichever of "(" and "{" opens it and whichever of ")" and "}" closes it:
\* both bracketing styles are accepted, and a placeholder opened with one
\* kind and closed with the other is replaced like them.
C11_Amended ==
    (ConvertDone({"Struct"}) /\ InOwnForm) =>
        r_out = Ok(Flatten([k \in 1..Len(r_frags) |->
                        IF /\ OwnPiece(r_frags[k])
                           /\ OpenOf(r_frags[k]) \in {"(", "{"}
                           /\ CloseOf(r_frags[k]) \in {")", "}"}
                        THEN Emitted(r_frags[k])
                        ELSE Pieces[r_frags[k]].text],
                    Len(r_frags)))

\* C11 witness: the placeholder of the documentation's example, "(" closed by
\* "}", and one in "{" closed by ")", both replaced.
C11_Witness ==
    /\ ConvertDone({"Struct"})
    /\ r_args.matches = <<"m">>
    /\ r_args.replace_with = <<"R">>
    /\ r_frags = <<12, 13>>
    /\ ~Paired(12) /\ ~Paired(13)
    /\ r_out = Ok(<<StructToken, "R", StructToken, "R">>)


(***************************************************************************)
(* C12: what a TypeRule or ExprRule puts in place of a placeholder.        *)
(***************************************************************************)
\* C12 as stated: every placeholder of the rule is replaced by replace_with
\* itself, character for character, also when replace_with holds "$".
\* Stated for identifier markers and separator-delimited payloads, so that it
\* does not rest on what C8 and C14 are about.
C12_Original ==
    (ConvertDone({"Type", "Expr"}) /\ IsIdentifier(r_args.matches) /\ PlainPayloads) =>
        r_out = Ok(Woven([k \in 1..Len(r_frags) |-> r_args.replace_with]))


(***************************************************************************)
(* C13: the reference rules never fail at conversion.                      *)
(***************************************************************************)
ReferenceKinds == {"String", "Type", "Expr", "Struct", "LibStruct"}

\* Whether the Template holds reference rules only.
OnlyReferenceRules ==
    \A k \in 1..Len(template.rules) : template.rules[k].kind \in ReferenceKinds

\* C13: convert of a reference rule that was constructed returns Ok on every
\* document; an apply of a Template of reference rules only holds Ok after
\* every rule and returns Ok; and StringRule::new returns Ok for every marker
\* name and replacement.
C13_NeverFails ==
    /\ ConvertDone(ReferenceKinds) => r_out.ok
    /\ (r_pc # "start" /\ r_args.kind = "String") => r_new.ok
    /\ OnlyReferenceRules =>
            \A c \in Calls :
                /\ calls[c].pc = "fold" => calls[c].acc.ok
                /\ calls[c].pc = "returned" => calls[c].ret.ok

\* C13 witness: a StringRule constructed for the marker name "(", which no
\* macro rule can be constructed for, has converted a document of two pieces.
C13_Witness ==
    /\ ConvertDone({"String"})
    /\ r_args.matches = <<"(">>
    /\ r_new.ok
    /\ Len(r_frags) = 2
    /\ r_out = Ok(Doc)

\* C13 witness for apply, kept apart: a Template of three reference rules, a
\* TypeRule among them, has returned Ok.
C13_WitnessApply ==
    /\ OnlyReferenceRules
    /\ Len(template.rules) = 3
    /\ \E k \in 1..3 : template.rules[k].kind = "Type"
    /\ calls[1].pc = "returned"
    /\ Len(calls[1].invoked) = 3
    /\ calls[1].ret.ok


(***************************************************************************)
(* C14: a type or expression placeholder whose payload holds the separator *)
(* or is empty.                                                            *)
(***************************************************************************)
\* C14 as stated: a placeholder of the rule whose payload is empty or holds
\* ";" is in the result as it was in the document, and never substituted in
\* part.  Stated for identifier markers, so that it does not rest on what C8
\* is about.
C14_Original ==
    (ConvertDone({"Type", "Expr"}) /\ IsIdentifier(r_args.matches)) =>
        r_out = Ok(Flatten([k \in 1..Len(r_frags) |->
                        IF OwnPiece(r_frags[k]) /\ PlainPayload(r_frags[k])
                        THEN Expand(r_args.replace_with, 1, Pieces[r_frags[k]].text)
                        ELSE Pieces[r_frags[k]].text],
                    Len(r_frags)))

\* What follows "name;" in the text of a type or expression piece: the
\* payload and the closing ";)".
AfterName(f) == Pieces[f].fields \o <<";", ")">>

\* The number of characters in front of the first ";" of AfterName(f).
FirstSegment(f) == SkipWhileNotIn(AfterName(f), 1, {";"}) - 1

\* How much of piece f the separator-delimited pattern takes: the text up to
\* the ")" that directly follows the first ";" after the name, when there is
\* at least one character in front of that ";" ; nothing otherwise.
SpanOf(f) ==
    IF FirstSegment(f) >= 1 /\ AfterName(f)[FirstSegment(f) + 2] = ")"
    THEN 3 + Len(Pieces[f].name) + FirstSegment(f) + 2
    ELSE 0

\* C14 amended: a placeholder of the rule whose payload is empty or starts
\* with ";", or in whose payload the first ";" is not directly followed by
\* ")", is not matched and is in the result as it was in the document; one in
\* whose payload the first ";" comes after at least one character and is
\* directly followed by ")" is matched up to that ")" : that part is replaced
\* and the rest of the payload, with the closing ";)", stays in the document.
C14_Amended ==
    ConvertDone({"Type", "Expr"}) =>
        r_out = Ok(Flatten([k \in 1..Len(r_frags) |->
                        LET f == r_frags[k]
                            text == Pieces[f].text
                        IN  IF OwnPiece(f) /\ SpanOf(f) > 0
                            THEN Expand(r_args.replace_with, 1, SubSeq(text, 1, SpanOf(f)))
                                    \o SubSeq(text, SpanOf(f) + 1, Len(text))
                            ELSE text],
                    Len(r_frags)))

\* C14 witness: of the expression placeholder with the payload ";)" in a
\* string literal the part up to the first ")" is replaced, and the ordinary
\* placeholder after it as a whole.
C14_Witness ==
    /\ ConvertDone({"Expr"})
    /\ r_args.matches = <<"m">>
    /\ r_args.replace_with = <<"R">>
    /\ r_frags = <<14, 7>>
    /\ ~PlainPayload(14)
    /\ r_out = Ok(<<"R", "\"", ";", ")", "R">>)

\* C14 witness for the placeholders that are not matched, kept apart: one with
\* the payload "x;x" and one with an empty payload are left as they are.
C14_WitnessUnmatched ==
    /\ ConvertDone({"Type"})
    /\ r_args.matches = <<"m">>
    /\ r_frags = <<15, 16>>
    /\ SpanOf(15) = 0 /\ SpanOf(16) = 0
    /\ r_out = Ok(Doc)

====
